---- MODULE Spec2Model ----
(***************************************************************************)
(* Model of core/audits/largest-contentful-paint-element.js:               *)
(* LargestContentfulPaintElement.audit and .makePhaseTable.                *)
(*                                                                         *)
(* Numbers.  A JavaScript number n is represented by the integer n * 1000  *)
(* (three decimal places, fixed point): 0.2 is 200, 1000 is 1000000.       *)
(* Addition and subtraction are the integer ones; `n * 1000` multiplies    *)
(* the representative by 1000 and `n / 1000` divides it by 1000.  Every    *)
(* input below has at most three decimals and every time origin is a whole *)
(* number, so each division by 1000 in the code is exact in the model.     *)
(* An optional value is a sequence: <<>> is undefined, <<v>> is v.         *)
(***************************************************************************)
EXTENDS Integers, Sequences, FiniteSets, TLC

VARIABLES
    pc,                 \* position of the audit() call
    TraceElements,      \* artifacts.TraceElements: traceEventType of each element
    lcpElementDetails,  \* audit(): rows of the element table
    processedNavigation,\* [timeOrigin] once retrieved
    metricResult,       \* [timing, hasEstimate, nodeTimings] once retrieved
    mainResource,       \* [responseHeadersEndTime] once retrieved
    lcpRecord,          \* resolver's answer: <<>> or <<[requestId, networkRequestTime, networkEndTime]>>
    timeOriginTs,       \* makePhaseTable locals
    firstByteTs,
    lcpLoadStartTs,
    lcpLoadEndTs,
    phaseTable,         \* makePhaseTable's return value: <<>> or <<table>>
    result              \* audit()'s product: <<>> or <<product>>

vars == <<pc, TraceElements, lcpElementDetails, processedNavigation, metricResult,
          mainResource, lcpRecord, timeOriginTs, firstByteTs, lcpLoadStartTs,
          lcpLoadEndTs, phaseTable, result>>

(***************************************************************************)
(* Bounds and input domains                                                *)
(***************************************************************************)
MaxNodes == 2

TraceElementLists ==
    { <<>>, <<"layout-shift">>, <<"largest-contentful-paint">>,
      <<"layout-shift", "largest-contentful-paint">> }

\* timeOrigin: 0 and 1000
TimeOrigins == {0, 1000000}

\* responseHeadersEndTime: 0.2, 1.2 and 2000
HeaderEndTimes == {200, 1200, 2000000}

\* metricResult.timing: 650 and 700
LcpTimings == {650000, 700000}

\* simulated {startTime, endTime}: {0, 0}, {0.3, 0.5} and {0.5, 0.3}
NodeTimingPairs == { <<0, 0>>, <<300, 500>>, <<500, 300>> }

RequestIds == {"r1", "r2"}

SimNodes ==
    [type : {"network", "cpu"}, requestId : RequestIds, timing : NodeTimingPairs]

SeqsUpTo(S, n) == UNION { [1..k -> S] : k \in 0..n }

NodeTimingMaps == SeqsUpTo(SimNodes, MaxNodes)

MetricResults ==
    [timing : LcpTimings, hasEstimate : {FALSE}, nodeTimings : {<<>>}]
    \cup [timing : LcpTimings, hasEstimate : {TRUE}, nodeTimings : NodeTimingMaps]

\* observed (networkRequestTime, networkEndTime): (1300, 1450), (0, 1450), (1450, 1300)
ObservedPairs == { <<1300000, 1450000>>, <<0, 1450000>>, <<1450000, 1300000>> }

LcpRecords ==
    { [requestId |-> "r1", networkRequestTime |-> p[1], networkEndTime |-> p[2]]
        : p \in ObservedPairs }

(***************************************************************************)
(* makePhaseTable, lines 61-106                                            *)
(***************************************************************************)
FirstByteTs(res) == res.responseHeadersEndTime * 1000

\* line 73 without the time origin
SimulatedTsNoOrigin(t, origin) == t * 1000

SimulatedTs(t, origin) == t * 1000 + origin

\* line 78 without the scaling
ObservedTsUnscaled(t) == t

ObservedTs(t) == t * 1000

NodeMatches(node, rec) ==
    node.type = "network" /\ node.requestId = rec.requestId

\* the for loop of lines 70-76: every matching entry overwrites both locals,
\* so the last matching entry of the map's iteration order decides them
LastMatch(nodeTimings, rec) ==
    LET hits == { i \in 1..Len(nodeTimings) : NodeMatches(nodeTimings[i], rec) }
    IN  IF hits = {} THEN 0 ELSE CHOOSE i \in hits : \A j \in hits : j <= i

\* lines 69-80 falling back to the observed fields when no node matches
LcpLoadTimesFallback(mr, rec, origin) ==
    LET i == LastMatch(mr.nodeTimings, rec)
    IN  IF mr.hasEstimate /\ i # 0
        THEN [start |-> <<mr.nodeTimings[i].timing[1] * 1000 + origin>>,
              end   |-> <<mr.nodeTimings[i].timing[2] * 1000 + origin>>]
        ELSE [start |-> <<rec.networkRequestTime * 1000>>,
              end   |-> <<rec.networkEndTime * 1000>>]

\* lines 69-80 taking the end of the load from the record in the simulated path
LcpLoadTimesMixed(mr, rec, origin) ==
    LET i == LastMatch(mr.nodeTimings, rec)
    IN  IF mr.hasEstimate
        THEN IF i = 0
             THEN [start |-> <<>>, end |-> <<>>]
             ELSE [start |-> <<mr.nodeTimings[i].timing[1] * 1000 + origin>>,
                   end   |-> <<rec.networkEndTime * 1000>>]
        ELSE [start |-> <<rec.networkRequestTime * 1000>>,
              end   |-> <<rec.networkEndTime * 1000>>]

LcpLoadTimes(mr, rec, origin) ==
    IF mr.hasEstimate
    THEN LET i == LastMatch(mr.nodeTimings, rec)
         IN  IF i = 0
             THEN [start |-> <<>>, end |-> <<>>]
             ELSE [start |-> <<SimulatedTs(mr.nodeTimings[i].timing[1], origin)>>,
                   end   |-> <<SimulatedTs(mr.nodeTimings[i].timing[2], origin)>>]
    ELSE [start |-> <<ObservedTs(rec.networkRequestTime)>>,
          end   |-> <<ObservedTs(rec.networkEndTime)>>]

\* line 82 testing for undefined only
FalsyUndefinedOnly(x) == x = <<>>

\* !x of line 82 for x a number or undefined
Falsy(x) == x = <<>> \/ x[1] = 0

TimestampsUnavailable(start, end) == Falsy(start) \/ Falsy(end)

Ttfb(fb, origin) == (fb - origin) \div 1000

LoadDelay(start, fb) == (start - fb) \div 1000

LoadTime(end, start) == (end - start) \div 1000

\* line 91 clamped at zero
RenderDelayClamped(timing, loadTime, loadDelay, ttfb) ==
    IF timing - loadTime - loadDelay - ttfb < 0
    THEN 0
    ELSE timing - loadTime - loadDelay - ttfb

\* line 91 without the TTFB term
RenderDelayNoTtfb(timing, loadTime, loadDelay, ttfb) == timing - loadTime - loadDelay

RenderDelay(timing, loadTime, loadDelay, ttfb) == timing - loadTime - loadDelay - ttfb

PhaseDetails(start, end, fb, origin, timing) ==
    LET ttfb      == Ttfb(fb, origin)
        loadDelay == LoadDelay(start, fb)
        loadTime  == LoadTime(end, start)
    IN  << [phase |-> "TTFB", timing |-> ttfb],
           [phase |-> "Load Delay", timing |-> loadDelay],
           [phase |-> "Load Time", timing |-> loadTime],
           [phase |-> "Render Delay",
            timing |-> RenderDelay(timing, loadTime, loadDelay, ttfb)] >>

\* lines 82-106: undefined, or the table of the four phases
PhaseTable(start, end, fb, origin, timing) ==
    IF TimestampsUnavailable(start, end)
    THEN <<>>
    ELSE << [headings |-> <<"phase", "timing">>,
             items |-> PhaseDetails(start[1], end[1], fb, origin, timing)] >>

(***************************************************************************)
(* audit, lines 114-146                                                    *)
(***************************************************************************)
LcpElementDetails(elements) ==
    LET hits == { i \in 1..Len(elements) : elements[i] = "largest-contentful-paint" }
    IN  IF hits = {}
        THEN <<>>
        ELSE << [node |-> CHOOSE i \in hits : \A j \in hits : i <= j] >>

AuditItems(elementTable, table) ==
    IF table # <<>> THEN <<elementTable, table[1]>> ELSE <<elementTable>>

AuditProduct(details, table) ==
    [score |-> 1,
     notApplicable |-> Len(details) = 0,
     nodeCount |-> Len(details),
     items |-> AuditItems([headings |-> <<"node">>, items |-> details], table)]

(***************************************************************************)
(* The state machine: one audit() call, cut at its awaits                  *)
(***************************************************************************)
Init ==
    /\ pc = "audit"
    /\ TraceElements \in TraceElementLists
    /\ lcpElementDetails = <<>>
    /\ processedNavigation = <<>>
    /\ metricResult = <<>>
    /\ mainResource = <<>>
    /\ lcpRecord = <<>>
    /\ timeOriginTs = <<>>
    /\ firstByteTs = <<>>
    /\ lcpLoadStartTs = <<>>
    /\ lcpLoadEndTs = <<>>
    /\ phaseTable = <<>>
    /\ result = <<>>

\* lines 115-132: the element table is built, then makePhaseTable is entered
AuditBegin ==
    /\ pc = "audit"
    /\ lcpElementDetails' = LcpElementDetails(TraceElements)
    /\ pc' = "networkRecords"
    /\ UNCHANGED <<TraceElements, processedNavigation, metricResult, mainResource,
                   lcpRecord, timeOriginTs, firstByteTs, lcpLoadStartTs, lcpLoadEndTs,
                   phaseTable, result>>

\* line 53: the awaited promise resolves or rejects; nothing catches a rejection
RequestNetworkRecords ==
    /\ pc = "networkRecords"
    /\ \E ok \in BOOLEAN : pc' = IF ok THEN "processedNavigation" ELSE "threw"
    /\ UNCHANGED <<TraceElements, lcpElementDetails, processedNavigation, metricResult,
                   mainResource, lcpRecord, timeOriginTs, firstByteTs, lcpLoadStartTs,
                   lcpLoadEndTs, phaseTable, result>>

\* line 54
RequestProcessedNavigation ==
    /\ pc = "processedNavigation"
    /\ \/ /\ \E o \in TimeOrigins : processedNavigation' = <<[timeOrigin |-> o]>>
          /\ pc' = "lcpMetric"
       \/ /\ pc' = "threw"
          /\ UNCHANGED processedNavigation
    /\ UNCHANGED <<TraceElements, lcpElementDetails, metricResult, mainResource,
                   lcpRecord, timeOriginTs, firstByteTs, lcpLoadStartTs, lcpLoadEndTs,
                   phaseTable, result>>

\* line 55
RequestLcpMetric ==
    /\ pc = "lcpMetric"
    /\ \/ /\ \E mr \in MetricResults : metricResult' = <<mr>>
          /\ pc' = "mainResource"
       \/ /\ pc' = "threw"
          /\ UNCHANGED metricResult
    /\ UNCHANGED <<TraceElements, lcpElementDetails, processedNavigation, mainResource,
                   lcpRecord, timeOriginTs, firstByteTs, lcpLoadStartTs, lcpLoadEndTs,
                   phaseTable, result>>

\* line 56
RequestMainResource ==
    /\ pc = "mainResource"
    /\ \/ /\ \E t \in HeaderEndTimes : mainResource' = <<[responseHeadersEndTime |-> t]>>
          /\ pc' = "getLcpRecord"
       \/ /\ pc' = "threw"
          /\ UNCHANGED mainResource
    /\ UNCHANGED <<TraceElements, lcpElementDetails, processedNavigation, metricResult,
                   lcpRecord, timeOriginTs, firstByteTs, lcpLoadStartTs, lcpLoadEndTs,
                   phaseTable, result>>

\* lines 58-59: the resolver answers a record or nothing
GetLcpRecord ==
    /\ pc = "getLcpRecord"
    /\ \/ /\ \E rec \in LcpRecords : lcpRecord' = <<rec>>
          /\ pc' = "selectTiming"
       \/ /\ lcpRecord' = <<>>
          /\ pc' = "assemble"
    /\ UNCHANGED <<TraceElements, lcpElementDetails, processedNavigation, metricResult,
                   mainResource, timeOriginTs, firstByteTs, lcpLoadStartTs, lcpLoadEndTs,
                   phaseTable, result>>

\* lines 61-80
SelectTiming ==
    /\ pc = "selectTiming"
    /\ timeOriginTs' = <<processedNavigation[1].timeOrigin>>
    /\ firstByteTs' = <<FirstByteTs(mainResource[1])>>
    /\ LET t == LcpLoadTimes(metricResult[1], lcpRecord[1],
                             processedNavigation[1].timeOrigin)
       IN  /\ lcpLoadStartTs' = t.start
           /\ lcpLoadEndTs' = t.end
    /\ pc' = "decompose"
    /\ UNCHANGED <<TraceElements, lcpElementDetails, processedNavigation, metricResult,
                   mainResource, lcpRecord, phaseTable, result>>

\* lines 82-106
Decompose ==
    /\ pc = "decompose"
    /\ phaseTable' = PhaseTable(lcpLoadStartTs, lcpLoadEndTs, firstByteTs[1],
                                timeOriginTs[1], metricResult[1].timing)
    /\ pc' = "assemble"
    /\ UNCHANGED <<TraceElements, lcpElementDetails, processedNavigation, metricResult,
                   mainResource, lcpRecord, timeOriginTs, firstByteTs, lcpLoadStartTs,
                   lcpLoadEndTs, result>>

\* lines 133-145
Assemble ==
    /\ pc = "assemble"
    /\ result' = <<AuditProduct(lcpElementDetails, phaseTable)>>
    /\ pc' = "done"
    /\ UNCHANGED <<TraceElements, lcpElementDetails, processedNavigation, metricResult,
                   mainResource, lcpRecord, timeOriginTs, firstByteTs, lcpLoadStartTs,
                   lcpLoadEndTs, phaseTable>>

Next ==
    \/ AuditBegin
    \/ RequestNetworkRecords
    \/ RequestProcessedNavigation
    \/ RequestLcpMetric
    \/ RequestMainResource
    \/ GetLcpRecord
    \/ SelectTiming
    \/ Decompose
    \/ Assemble

Spec == Init /\ [][Next]_vars

(***************************************************************************)
(* Properties                                                              *)
(***************************************************************************)
Selected == pc \in {"decompose", "assemble", "done"} /\ lcpRecord # <<>>

Decomposed == pc \in {"assemble", "done"} /\ lcpRecord # <<>>

NoLcpElement ==
    \A i \in 1..Len(TraceElements) : TraceElements[i] # "largest-contentful-paint"

MatchingNodes ==
    { i \in 1..Len(metricResult[1].nodeTimings) :
        /\ metricResult[1].nodeTimings[i].type = "network"
        /\ metricResult[1].nodeTimings[i].requestId = lcpRecord[1].requestId }

PhaseTimings == [i \in 1..4 |-> phaseTable[1].items[i].timing]

C2_NoNegativePhase ==
    phaseTable # <<>> =>
        PhaseTimings[1] >= 0 /\ PhaseTimings[2] >= 0 /\ PhaseTimings[3] >= 0

\* C3: when TraceElements holds no largest-contentful-paint element, the
\* product is not applicable, lists no element and carries no phase table.
C3_NoElementNoBreakdown ==
    (pc = "done" /\ NoLcpElement) =>
        /\ result[1].notApplicable
        /\ result[1].items[1].items = <<>>
        /\ Len(result[1].items) = 1

\* C4: with a pessimisticEstimate both load timestamps come from one matching
\* network node of the simulation (or both stay undefined when none matches);
\* without one both come from the record's observed fields.
C4_SourceExclusive ==
    Selected =>
        IF metricResult[1].hasEstimate
        THEN \/ /\ MatchingNodes = {}
                /\ lcpLoadStartTs = <<>>
                /\ lcpLoadEndTs = <<>>
             \/ \E i \in MatchingNodes :
                    LET t == metricResult[1].nodeTimings[i].timing
                    IN  /\ lcpLoadStartTs = <<t[1] * 1000 + processedNavigation[1].timeOrigin>>
                        /\ lcpLoadEndTs = <<t[2] * 1000 + processedNavigation[1].timeOrigin>>
        ELSE /\ lcpLoadStartTs = <<lcpRecord[1].networkRequestTime * 1000>>
             /\ lcpLoadEndTs = <<lcpRecord[1].networkEndTime * 1000>>

\* the simulated path with two matching nodes of different timings
C4_Witness ==
    /\ Selected
    /\ metricResult[1].hasEstimate
    /\ Cardinality(MatchingNodes) = 2
    /\ metricResult[1].nodeTimings[1].timing # metricResult[1].nodeTimings[2].timing
    /\ lcpLoadStartTs # <<>>

\* Scenario B: observed metric, record 1300..1450, first byte 1200, origin 1000, timing 650
ScenarioB ==
    /\ Decomposed
    /\ ~metricResult[1].hasEstimate
    /\ lcpRecord[1].networkRequestTime = 1300000
    /\ lcpRecord[1].networkEndTime = 1450000
    /\ firstByteTs = <<1200000>>
    /\ timeOriginTs = <<1000000>>
    /\ metricResult[1].timing = 650000

ScenarioA ==
    /\ Decomposed
    /\ metricResult[1].hasEstimate
    /\ MatchingNodes # {}
    /\ \A i \in MatchingNodes : metricResult[1].nodeTimings[i].timing = <<300, 500>>
    /\ processedNavigation[1].timeOrigin = 1000000
    /\ mainResource[1].responseHeadersEndTime = 200
    /\ metricResult[1].timing = 700000

C7_NeverRaises ==
    /\ pc # "threw"
    /\ pc = "done" => Len(result[1].items) >= 1

\* C8: with an LCP element present, when the resolver finds no record or the
\* estimate has no network node for the record's requestId, the product is
\* applicable, lists the one element and carries no phase table.
C8_ElementOnly ==
    (/\ pc = "done"
     /\ ~NoLcpElement
     /\ \/ lcpRecord = <<>>
        \/ metricResult[1].hasEstimate /\ MatchingNodes = {}) =>
        /\ ~result[1].notApplicable
        /\ result[1].nodeCount = 1
        /\ Len(result[1].items) = 1
        /\ Len(result[1].items[1].items) = 1

\* an estimate with nodes, none of them the record's network node
C8_Witness ==
    /\ pc = "done"
    /\ ~NoLcpElement
    /\ lcpRecord # <<>>
    /\ metricResult[1].hasEstimate
    /\ Len(metricResult[1].nodeTimings) = 2
    /\ MatchingNodes = {}

\* C9: after a record was resolved, no phase table is produced when the load
\* start or the load end is zero or undefined, and a table of exactly four
\* entries is produced otherwise.
C9_ZeroIsUnavailable ==
    Decomposed =>
        /\ phaseTable = <<>> <=>
              \/ lcpLoadStartTs = <<>> \/ lcpLoadStartTs = <<0>>
              \/ lcpLoadEndTs = <<>> \/ lcpLoadEndTs = <<0>>
        /\ phaseTable # <<>> => Len(phaseTable[1].items) = 4

\* a load start of exactly zero next to a non-zero load end
C9_Witness ==
    /\ Decomposed
    /\ lcpLoadStartTs = <<0>>
    /\ lcpLoadEndTs # <<>>
    /\ lcpLoadEndTs # <<0>>
    /\ phaseTable = <<>>

====
